---- MODULE Spec2Model ----
(***************************************************************************)
(* A model of the flight-search layer of ai-travel-cost-optimizer:         *)
(*   src/src/app/api/chat/route.ts       extractFlightParams, POST         *)
(*   src/src/app/api/chat/lib/amadeus.ts getAccessToken, searchFlights,    *)
(*                                       formatFlightOffer,                *)
(*                                       getAlternativeDates, convertToUSD *)
(*                                                                         *)
(* Strings are sequences of one-character strings, so that substring       *)
(* search, case folding and the word-boundary regular expression are       *)
(* computed and not assumed.  A nullable string is a sequence of length    *)
(* 0 (null) or 1 (the string).                                             *)
(***************************************************************************)
EXTENDS Integers, Sequences, FiniteSets, TLC

(***************************************************************************)
(* Bounds of the model.                                                    *)
(***************************************************************************)
\* words in an utterance handed to extractFlightParams
MaxWords == 3

\* concurrent callers of searchFlights
NCallers == 2

\* ticks of the clock (one tick is 1000 ms of Date.now())
MaxTicks == 3

\* tokens the upstream issues in one run
MaxTokens == 3

\* days before and after the base date in a getAlternativeDates call
MaxDays == 2

\* words in the message of a POST request
MaxPostWords == 2

VARIABLES
  now,          \* Date.now(), in milliseconds
  accessToken,  \* amadeus.ts 60: "null", "undefined" or a token
  tokenExpiry,  \* amadeus.ts 61: << ms >>, or << >> for NaN
  cacheSrc,     \* history: the response that wrote accessToken and tokenExpiry
  nIssued,      \* history: how many tokens the upstream has issued
  pc,           \* per caller: where its call chain is suspended
  call,         \* per caller: its searchFlights call in progress
  ended,        \* history: the searchFlights call that ended last
  scan,         \* per caller: its getAlternativeDates call
  post,         \* per caller: its POST request
  utterance,    \* the argument of a direct extractFlightParams call
  extracted     \* its result

vars == << now, accessToken, tokenExpiry, cacheSrc, nIssued, pc, call, ended,
           scan, post, utterance, extracted >>

(***************************************************************************)
(* Characters and strings.                                                 *)
(***************************************************************************)
UpperSeq ==
  << "A","B","C","D","E","F","G","H","I","J","K","L","M",
     "N","O","P","Q","R","S","T","U","V","W","X","Y","Z" >>

LowerSeq ==
  << "a","b","c","d","e","f","g","h","i","j","k","l","m",
     "n","o","p","q","r","s","t","u","v","w","x","y","z" >>

IsUpper(c) == \E i \in 1..26 : UpperSeq[i] = c

IsLower(c) == \E i \in 1..26 : LowerSeq[i] = c

\* \w of the regular expressions, over the characters of the model
IsWordChar(c) == IsUpper(c) \/ IsLower(c)

ToLowerChar(c) ==
  IF IsUpper(c) THEN LowerSeq[CHOOSE i \in 1..26 : UpperSeq[i] = c] ELSE c

ToUpperChar(c) ==
  IF IsLower(c) THEN UpperSeq[CHOOSE i \in 1..26 : LowerSeq[i] = c] ELSE c

\* String.prototype.toLowerCase
ToLowerCase(s) == [i \in 1..Len(s) |-> ToLowerChar(s[i])]

\* String.prototype.toUpperCase
ToUpperCase(s) == [i \in 1..Len(s) |-> ToUpperChar(s[i])]

\* the positions at which t occurs in s
Occurrences(s, t) ==
  {i \in 1..(Len(s) - Len(t) + 1) : SubSeq(s, i, i + Len(t) - 1) = t}

\* String.prototype.includes
Includes(s, t) == Occurrences(s, t) # {}

\* nullable values
NULL == << >>

Some(v) == << v >>

IsNull(o) == o = NULL

(***************************************************************************)
(* route.ts, extractFlightParams.                                          *)
(***************************************************************************)
\* Object.keys(airportMap): the keys in insertion order
cityKeys ==
  << << "s","a","n"," ","f","r","a","n","c","i","s","c","o" >>,
     << "s","f" >>,
     << "l","o","s"," ","a","n","g","e","l","e","s" >>,
     << "l","a" >>,
     << "n","e","w"," ","y","o","r","k" >>,
     << "n","y","c" >>,
     << "m","i","a","m","i" >>,
     << "c","h","i","c","a","g","o" >>,
     << "b","o","s","t","o","n" >>,
     << "s","e","a","t","t","l","e" >>,
     << "d","e","n","v","e","r" >>,
     << "a","t","l","a","n","t","a" >>,
     << "d","a","l","l","a","s" >>,
     << "h","o","u","s","t","o","n" >>,
     << "p","h","o","e","n","i","x" >>,
     << "l","a","s"," ","v","e","g","a","s" >>,
     << "o","r","l","a","n","d","o" >>,
     << "w","a","s","h","i","n","g","t","o","n" >>,
     << "d","c" >>,
     << "p","o","r","t","l","a","n","d" >>
  >>

\* the values of airportMap, in the order of cityKeys
airportCodes ==
  << << "S","F","O" >>, << "S","F","O" >>, << "L","A","X" >>, << "L","A","X" >>,
     << "J","F","K" >>, << "J","F","K" >>, << "M","I","A" >>, << "O","R","D" >>,
     << "B","O","S" >>, << "S","E","A" >>, << "D","E","N" >>, << "A","T","L" >>,
     << "D","F","W" >>, << "I","A","H" >>, << "P","H","X" >>, << "L","A","S" >>,
     << "M","C","O" >>, << "D","C","A" >>, << "D","C","A" >>, << "P","D","X" >>
  >>

\* one turn of the loop over cityKeys (route.ts 43-46) on the pair <<origin, destination>>
CityStep(od, lowerMsg, city) ==
  IF IsNull(od[1]) /\ Includes(lowerMsg, city) THEN << Some(city), od[2] >>
  ELSE IF IsNull(od[2]) /\ Includes(lowerMsg, city) THEN << od[1], Some(city) >>
  ELSE od

RECURSIVE CityLoop(_, _, _)
CityLoop(od, lowerMsg, k) ==
  IF k > Len(cityKeys) THEN od
  ELSE CityLoop(CityStep(od, lowerMsg, cityKeys[k]), lowerMsg, k + 1)

\* a match of /\b([A-Z]{3})\b/ starts at position i of s
CodeAt(s, i) ==
  /\ i + 2 <= Len(s)
  /\ IsUpper(s[i]) /\ IsUpper(s[i + 1]) /\ IsUpper(s[i + 2])
  /\ (i = 1 \/ ~IsWordChar(s[i - 1]))
  /\ (i + 3 > Len(s) \/ ~IsWordChar(s[i + 3]))

\* message.match(/\b([A-Z]{3})\b/g): the matches from position i on, in order
\* (the empty sequence stands for the null of "no match")
RECURSIVE CodeMatchesFrom(_, _)
CodeMatchesFrom(s, i) ==
  IF i > Len(s) THEN << >>
  ELSE IF CodeAt(s, i) THEN << SubSeq(s, i, i + 2) >> \o CodeMatchesFrom(s, i + 3)
  ELSE CodeMatchesFrom(s, i + 1)

CodeMatches(s) == CodeMatchesFrom(s, 1)

\* route.ts 49-53: the fallback to 3-letter codes
CodeFallback(od, codeMatches) ==
  IF Len(codeMatches) = 0 THEN od
  ELSE LET o == IF IsNull(od[1]) THEN Some(codeMatches[1]) ELSE od[1]
       IN  << o,
              IF IsNull(od[2]) /\ Len(codeMatches) >= 2
              THEN Some(codeMatches[2]) ELSE od[2] >>

\* the prepositions of the date pattern, in the order of the alternation
datePreps == << << "o","n" >>, << "i","n" >>, << "f","o","r" >> >>

\* the end of the run of characters satisfying the test that starts at i
RECURSIVE LetterRunEnd(_, _)
LetterRunEnd(s, i) ==
  IF i <= Len(s) /\ IsWordChar(s[i]) THEN LetterRunEnd(s, i + 1) ELSE i - 1

RECURSIVE SpaceRunEnd(_, _)
SpaceRunEnd(s, i) ==
  IF i <= Len(s) /\ s[i] = " " THEN SpaceRunEnd(s, i + 1) ELSE i - 1

\* /(?:on|in|for)\s+([a-z]+\s*\d{0,2}\s*\d{0,4})/i matches at position i with
\* preposition p: the capture, trimmed (the model's characters hold no digit)
DateAt(s, i, p) ==
  LET low == ToLowerCase(s)
      j   == i + Len(p)
      e   == SpaceRunEnd(s, j)
      f   == LetterRunEnd(s, e + 1)
  IN  IF /\ j - 1 <= Len(s)
         /\ SubSeq(low, i, j - 1) = p
         /\ e >= j
         /\ f >= e + 1
      THEN Some(SubSeq(s, e + 1, f))
      ELSE NULL

RECURSIVE DateMatchFrom(_, _)
DateMatchFrom(s, i) ==
  IF i > Len(s) THEN NULL
  ELSE LET hits == {k \in 1..Len(datePreps) : ~IsNull(DateAt(s, i, datePreps[k]))}
       IN  IF hits # {}
           THEN DateAt(s, i, datePreps[CHOOSE k \in hits : \A m \in hits : k <= m])
           ELSE DateMatchFrom(s, i + 1)

\* route.ts 8-60
extractFlightParams(message) ==
  LET lowerMsg == ToLowerCase(message)
      cities   == CityLoop(<< NULL, NULL >>, lowerMsg, 1)
      od       == CodeFallback(cities, CodeMatches(message))
  IN  [origin |-> od[1], destination |-> od[2], date |-> DateMatchFrom(message, 1)]

\* route.ts 63-89
cityToAirportCode(city) ==
  LET normalized == ToLowerCase(city)
      hits == {k \in 1..Len(cityKeys) : cityKeys[k] = normalized}
  IN  IF hits # {} THEN airportCodes[CHOOSE k \in hits : TRUE] ELSE ToUpperCase(city)

(***************************************************************************)
(* Utterances: up to MaxWords words separated by single spaces.            *)
(***************************************************************************)
Words ==
  { << "n","y","c" >>, << "s","f" >>, << "b","o","s","t","o","n" >>,
    << "a","t","l","a","n","t","a" >>, << "N","Y","C" >>,
    << "L","A","X" >>, << "J","F","K" >>, << "t","o" >> }

RECURSIVE Utterances(_)
Utterances(n) ==
  IF n = 0 THEN { << >> }
  ELSE LET shorter == Utterances(n - 1)
       IN  shorter \cup Words
             \cup {u \o << " " >> \o w : u \in (shorter \ { << >> }), w \in Words}

(***************************************************************************)
(* amadeus.ts, the token cache and getAccessToken.                         *)
(***************************************************************************)
Procs == 1..NCallers

TokenNames == << "T1", "T2", "T3", "T4", "T5", "T6" >>

\* the tokens the upstream has issued so far
IssuedTokens == {TokenNames[k] : k \in 1..nIssued}

\* expires_in of a token response, in seconds
ExpiresInValues == {300, 301, 302}

\* JavaScript truthiness of a token value
Truthy(tok) == tok \notin {"null", "undefined"}

NaN == << >>

\* a < b on numbers of which b may be NaN
LessThan(a, b) == b # NaN /\ a < b[1]

\* amadeus.ts 65: the cache serves the call
CacheFresh == Truthy(accessToken) /\ LessThan(now, tokenExpiry)

\* line 85 without the buffer of 300 seconds
ExpiryOfNoBuffer(t, expires_in) ==
  IF expires_in = NULL THEN NaN ELSE << t + expires_in[1] * 1000 >>

\* amadeus.ts 85: Date.now() + (expires_in - 300) * 1000, NaN without expires_in
ExpiryOf(t, expires_in) ==
  IF expires_in = NULL THEN NaN ELSE << t + (expires_in[1] - 300) * 1000 >>

\* what the upstream may answer to the token request: an error with no
\* response, a non-2xx response, a 2xx response with no body, or a 2xx
\* response whose body holds access_token and expires_in or lacks them
TokenResponses ==
  { [kind |-> k, access_token |-> NULL, expires_in |-> NULL] :
      k \in {"neterr", "non2xx", "nobody"} }
  \cup
  { [kind |-> "ok", access_token |-> a, expires_in |-> e] :
      a \in (IF nIssued < MaxTokens THEN {NULL, Some(TokenNames[nIssued + 1])}
                                    ELSE {NULL}),
      e \in {NULL} \cup {Some(x) : x \in ExpiresInValues} }

\* amadeus.ts 84-86 run without throwing on this response
TokenBodyRead(r) == r.kind = "ok"

\* lines 84-85 on a response whose body could be read
TokenOf(r) == IF r.access_token = NULL THEN "undefined" ELSE r.access_token[1]

\* history: the response that wrote the cache, with its time of arrival
SrcOf(t, r) == Some([t0 |-> t, access_token |-> r.access_token, expires_in |-> r.expires_in])

\* no call in progress
NoCall ==
  [caller |-> "none", max |-> 0, nf |-> 0, resp |-> NULL, token |-> "null",
   nSearch |-> 0, late |-> FALSE]

\* history: the cache was written by a token response that held a token and a lifetime
SrcAdvertised ==
  /\ cacheSrc # NULL
  /\ cacheSrc[1].access_token # NULL
  /\ cacheSrc[1].expires_in # NULL

\* history: the instant t0 + (expires_in - 300) seconds of that response, in milliseconds
WindowEnd == cacheSrc[1].t0 + (cacheSrc[1].expires_in[1] - 300) * 1000

\* history: a call made now is made at or after that instant
Late == SrcAdvertised /\ now >= WindowEnd

\* searchFlights(params) is called by p (99-101) and runs to its first
\* suspension.  getAccessToken is entered (65-67): the cache serves it and the
\* search request is sent with the cached token (114), or the token request is
\* sent (70).  nf counts the token requests and nSearch the search requests
\* of the call, and late tells a call made at or after the end of the window.
BeginSearch(p, caller, max) ==
  IF CacheFresh
  THEN /\ call' = [call EXCEPT ![p] =
                     [caller |-> caller, max |-> max, nf |-> 0, resp |-> NULL,
                      token |-> accessToken, nSearch |-> 1, late |-> Late]]
       /\ pc' = [pc EXCEPT ![p] = "sf_await"]
  ELSE /\ call' = [call EXCEPT ![p] =
                     [caller |-> caller, max |-> max, nf |-> 1, resp |-> NULL,
                      token |-> "null", nSearch |-> 0, late |-> Late]]
       /\ pc' = [pc EXCEPT ![p] = "gat_await"]

\* the call c has ended: what getAccessToken returned or threw in it (ret),
\* and whether searchFlights returned ("ok") or threw 'Failed to search
\* flights' ("error"), on a 401 of the search (rejected) or otherwise
EndedCall(c, ret, result, rejected, nFlights) ==
  [caller |-> c.caller, nf |-> c.nf, resp |-> c.resp, ret |-> ret,
   nSearch |-> c.nSearch, result |-> result, rejected |-> rejected,
   nFlights |-> nFlights]

(***************************************************************************)
(* The upstream flight-offer search.                                       *)
(***************************************************************************)
\* max of the search getAlternativeDates issues, and of the one POST issues
ScanMax == 1

PostMax == 5

\* how many offers POST formats
PostShown == 3

\* raw offers (the FlightOffer of amadeus.ts 26-47): price.total as the number
\* parseFloat reads, price.currency, and of the outbound itinerary the first
\* carrier, the number of segments, the first departure and the last arrival
\* airport and the hours and minutes of the duration; shape tells an offer
\* with no itinerary, or with an outbound itinerary of no segment, from a
\* well-formed one
RawOffers ==
  { [id |-> "o1", total |-> 200, currency |-> "USD", shape |-> "ok", segments |-> 1,
     carrier |-> "AA", dep |-> "SFO", arr |-> "JFK", hours |-> << 6 >>, minutes |-> << 44 >>],
    [id |-> "o2", total |-> 100, currency |-> "USD", shape |-> "ok", segments |-> 2,
     carrier |-> "ZZ", dep |-> "SFO", arr |-> "JFK", hours |-> << >>, minutes |-> << 50 >>],
    [id |-> "o3", total |-> 100, currency |-> "EUR", shape |-> "ok", segments |-> 1,
     carrier |-> "AF", dep |-> "SFO", arr |-> "EWR", hours |-> << 9 >>, minutes |-> << >>],
    [id |-> "o4", total |-> 0, currency |-> "USD", shape |-> "ok", segments |-> 1,
     carrier |-> "DL", dep |-> "OAK", arr |-> "JFK", hours |-> << 1 >>, minutes |-> << 5 >>],
    [id |-> "o5", total |-> 200, currency |-> "USD", shape |-> "noItinerary", segments |-> 0,
     carrier |-> "AA", dep |-> "SFO", arr |-> "JFK", hours |-> << >>, minutes |-> << >>],
    [id |-> "o6", total |-> 100, currency |-> "USD", shape |-> "noSegment", segments |-> 0,
     carrier |-> "AA", dep |-> "SFO", arr |-> "JFK", hours |-> << 6 >>, minutes |-> << >>] }

\* the sequences of at most n raw offers
OfferLists(n) == UNION {[1..k -> RawOffers] : k \in 0..n}

\* what the upstream may answer to the search request of record s: a 401 on
\* the token, another failure, or a 2xx whose body holds data (at most max
\* offers) or lacks it; it accepts only a token it has issued
SearchResponses(s) ==
  { [kind |-> k, data |-> NULL] : k \in {"auth", "fail"} }
  \cup
  (IF s.token \in IssuedTokens
   THEN { [kind |-> "ok", data |-> d] :
            d \in {NULL} \cup {Some(l) : l \in OfferLists(s.max)} }
   ELSE {})

(***************************************************************************)
(* amadeus.ts, getAlternativeDates.                                        *)
(***************************************************************************)
\* 186: the base date itself is skipped
SkipBase(i) == IF i = 0 THEN 1 ELSE i

\* line 185 with < for <=
LoopCondStrict(i, daysAfter) == i < daysAfter

\* 185: the loop goes on
LoopCond(i, daysAfter) == i <= daysAfter

\* 201: the price of the first offer, null when there is none
CheapestPrice(flights) ==
  IF Len(flights) > 0 THEN Some(flights[1].total) ELSE NULL

\* 214: a.price || Infinity, << >> standing for Infinity
SortKey(price) == IF price = NULL \/ price[1] = 0 THEN << >> ELSE price

\* 214: the comparator, as Array.prototype.sort reads it (NaN counts as 0)
Compare(a, b) ==
  LET ka == SortKey(a.price)
      kb == SortKey(b.price)
  IN  IF ka = << >> /\ kb = << >> THEN 0
      ELSE IF ka = << >> THEN 1
      ELSE IF kb = << >> THEN -1
      ELSE ka[1] - kb[1]

\* x put into the sorted sequence s behind every element that is not greater
InsertSorted(s, x) ==
  LET before == {k \in 1..Len(s) : Compare(s[k], x) <= 0}
      n == IF before = {} THEN 0 ELSE CHOOSE k \in before : \A m \in before : m <= k
  IN  SubSeq(s, 1, n) \o << x >> \o SubSeq(s, n + 1, Len(s))

\* Array.prototype.sort with the comparator of line 214: the stable sort
RECURSIVE SortAlternatives(_)
SortAlternatives(s) ==
  IF Len(s) = 0 THEN << >>
  ELSE InsertSorted(SortAlternatives(SubSeq(s, 1, Len(s) - 1)), s[Len(s)])

NoScan ==
  [called |-> FALSE, daysBefore |-> 0, daysAfter |-> 0, i |-> 0, alternatives |-> << >>,
   calls |-> << >>, log |-> << >>, result |-> NULL]

\* 192-211: what one turn of the loop pushes for the offset i
ScanPush(sc, e, flights) ==
  [date |-> sc.i,
   price |-> IF e.result = "ok" THEN CheapestPrice(flights) ELSE NULL]

(***************************************************************************)
(* amadeus.ts, formatFlightOffer and convertToUSD.                         *)
(***************************************************************************)
\* the carrier codes of airlineNames (2-23) and their names
airlineCodes ==
  << "AA", "DL", "UA", "WN", "AS", "B6", "F9", "NK", "AC", "AF", "BA", "LH", "KL",
     "QF", "SQ", "EK", "CX", "NH", "JL" >>

airlineNames ==
  << "American Airlines", "Delta Air Lines", "United Airlines", "Southwest Airlines",
     "Alaska Airlines", "JetBlue Airways", "Frontier Airlines", "Spirit Airlines",
     "Air Canada", "Air France", "British Airways", "Lufthansa", "KLM", "Qantas",
     "Singapore Airlines", "Emirates", "Cathay Pacific", "ANA", "Japan Airlines" >>

\* 148: airlineNames[airlineCode] || airlineCode
AirlineName(code) ==
  LET hits == {k \in 1..Len(airlineCodes) : airlineCodes[k] = code}
  IN  IF hits # {} THEN airlineNames[CHOOSE k \in hits : TRUE] ELSE code

\* 133-139: "PT6H44M" to "6h 44m", as the parts that are joined
formatDuration(hours, minutes) ==
  (IF hours # NULL THEN << << hours[1], "h" >> >> ELSE << >>)
    \o (IF minutes # NULL THEN << << minutes[1], "m" >> >> ELSE << >>)

\* what the rate source may answer: a failure, or a snapshot in which one
\* unit of the currency is worth usdRate dollars (234)
RateResponses == { [kind |-> "fail", usdRate |-> 1], [kind |-> "ok", usdRate |-> 2] }

\* 226-240
convertToUSD(amount, fromCurrency, r) ==
  IF fromCurrency = "USD" THEN amount
  ELSE IF r.kind = "ok" THEN amount * r.usdRate
  ELSE amount

\* 157-171: the record formatFlightOffer resolves to
Normalized(flight, usdPrice) ==
  [id |-> flight.id, price |-> flight.total, priceUSD |-> usdPrice,
   currency |-> flight.currency, origin |-> flight.dep, destination |-> flight.arr,
   duration |-> formatDuration(flight.hours, flight.minutes),
   stops |-> flight.segments - 1, airline |-> flight.carrier,
   airlineName |-> AirlineName(flight.carrier)]

\* 143-155: the call formatFlightOffer(flight) returns a promise: rejected at
\* once when the offer has no outbound itinerary (145 throws) or one of no
\* segment (147 throws), pending at the await of convertToUSD otherwise
formatFlightOffer(flight) ==
  [kind |-> "promise",
   state |-> IF flight.shape = "ok" THEN "pending" ELSE "rejected",
   offer |-> flight, value |-> NULL]

(***************************************************************************)
(* route.ts, POST.                                                         *)
(***************************************************************************)
\* 92-110: the date searched, never null
parseDate(dateStr) ==
  LET normalized == ToLowerCase(dateStr)
  IN  IF Includes(normalized, << "d","e","c","e","m","b","e","r" >>) THEN Some("12-15")
      ELSE IF Includes(normalized, << "j","a","n","u","a","r","y" >>) THEN Some("01-15")
      ELSE Some("in 30 days")

\* line 130 with || for &&
SearchGuardEither(flightParams) ==
  ~IsNull(flightParams.origin) \/ ~IsNull(flightParams.destination)

\* 130: the search is attempted
SearchGuard(flightParams) ==
  ~IsNull(flightParams.origin) /\ ~IsNull(flightParams.destination)

\* 153: flights.slice(0, 3).map(formatFlightOffer)
MapFormat(flights) ==
  [k \in 1..(IF Len(flights) < PostShown THEN Len(flights) ELSE PostShown) |->
     formatFlightOffer(flights[k])]

\* reading property f of a JavaScript object: undefined (NULL) when it has none
GetProp(obj, f) == IF f \in DOMAIN obj THEN Some(obj[f]) ELSE NULL

\* the template literal of line 171, by the values it interpolates
BestText(bestFlight) ==
  [reply |-> "best",
   origin |-> GetProp(bestFlight, "origin"),
   destination |-> GetProp(bestFlight, "destination"),
   airlineName |-> GetProp(bestFlight, "airlineName"),
   price |-> GetProp(bestFlight, "price"),
   currency |-> GetProp(bestFlight, "currency"),
   stops |-> GetProp(bestFlight, "stops"),
   duration |-> GetProp(bestFlight, "duration")]

FixedText(reply) ==
  [reply |-> reply, origin |-> NULL, destination |-> NULL, airlineName |-> NULL,
   price |-> NULL, currency |-> NULL, stops |-> NULL, duration |-> NULL]

\* 168-176
ConcisePrompt(flightSearchPerformed, flightData) ==
  IF flightSearchPerformed /\ flightData # NULL /\ Len(flightData[1]) > 0
  THEN BestText(flightData[1][1])
  ELSE IF flightSearchPerformed THEN FixedText("none found")
  ELSE FixedText("ask")

\* JSON.stringify of a promise: an object with no property
ToJSON(promise) == [kind |-> "emptyObject"]

\* 178-181
OkResponse(flightSearchPerformed, flightData) ==
  [status |-> 200,
   response |-> Some(ConcisePrompt(flightSearchPerformed, flightData)),
   flightData |-> IF flightSearchPerformed /\ flightData # NULL
                  THEN Some([k \in 1..Len(flightData[1]) |-> ToJSON(flightData[1][k])])
                  ELSE NULL]

\* 118-121 and 185-191
ErrorResponse(status) ==
  [status |-> status,
   response |-> IF status = 500 THEN Some(FixedText("sorry")) ELSE NULL,
   flightData |-> NULL]

NoPost ==
  [called |-> FALSE, flightParams |-> NULL, query |-> NULL,
   flightSearchPerformed |-> FALSE, flightData |-> NULL, response |-> NULL]

(***************************************************************************)
(* What each caller of searchFlights does when it returns or throws.  A    *)
(* call runs from one await to the next in one step.                       *)
(***************************************************************************)
\* a direct caller of searchFlights takes the result
CallerCont(p) ==
  /\ call' = [call EXCEPT ![p] = NoCall]
  /\ pc' = [pc EXCEPT ![p] = "idle"]
  /\ UNCHANGED << scan, post >>

\* getAlternativeDates at the head of its loop (185-186) with record sc: the
\* next search is called, or the sorted alternatives are returned (214)
ScanLoop(p, sc) ==
  IF LoopCond(sc.i, sc.daysAfter)
  THEN /\ scan' = [scan EXCEPT ![p] =
                     [sc EXCEPT !.calls = Append(@, [offset |-> sc.i, max |-> ScanMax])]]
       /\ BeginSearch(p, "scan", ScanMax)
       /\ UNCHANGED post
  ELSE /\ scan' = [scan EXCEPT ![p] =
                     [sc EXCEPT !.result = Some(SortAlternatives(sc.alternatives))]]
       /\ call' = [call EXCEPT ![p] = NoCall]
       /\ pc' = [pc EXCEPT ![p] = "idle"]
       /\ UNCHANGED post

\* history: what the upstream answered to the search of an offset
Outcome(i, e, flights) ==
  [offset |-> i, tokenFailed |-> e.ret = "Error", result |-> e.result,
   offers |-> [k \in 1..Len(flights) |-> flights[k].total]]

\* 192-212: the search of the offset returned or threw; push and go on
ScanCont(p, e, flights) ==
  ScanLoop(p, [scan[p] EXCEPT !.alternatives = Append(@, ScanPush(scan[p], e, flights)),
                              !.log = Append(@, Outcome(scan[p].i, e, flights)),
                              !.i = SkipBase(@ + 1)])

\* route.ts 151-181: the search returned or threw (159); POST answers
PostCont(p, e, flights) ==
  LET flightData == IF e.result = "ok" /\ Len(flights) > 0
                    THEN Some(MapFormat(flights)) ELSE NULL
  IN  /\ post' = [post EXCEPT ![p] =
                    [@ EXCEPT !.flightData = flightData,
                              !.response = Some(OkResponse(TRUE, flightData))]]
      /\ call' = [call EXCEPT ![p] = NoCall]
      /\ pc' = [pc EXCEPT ![p] = "idle"]
      /\ UNCHANGED scan

\* the searchFlights call of p ends as e with these flights
Resume(p, e, flights) ==
  /\ ended' = Some(e)
  /\ CASE e.caller = "caller" -> CallerCont(p)
       [] e.caller = "scan" -> ScanCont(p, e, flights)
       [] e.caller = "post" -> PostCont(p, e, flights)

(***************************************************************************)
(* Actions.                                                                *)
(***************************************************************************)
\* time passes
Tick ==
  /\ now < MaxTicks * 1000
  /\ now' = now + 1000
  /\ UNCHANGED << accessToken, tokenExpiry, cacheSrc, nIssued, pc, call, ended,
                  scan, post, utterance, extracted >>

\* a caller calls searchFlights
CallSearch(p) ==
  /\ pc[p] = "idle"
  /\ BeginSearch(p, "caller", ScanMax)
  /\ UNCHANGED << now, accessToken, tokenExpiry, cacheSrc, nIssued, ended, scan,
                  post, utterance, extracted >>

\* the token request of p is answered (amadeus.ts 83-95): the cache is
\* written and the search request sent, or searchFlights throws
TokenResponse(p) ==
  /\ pc[p] = "gat_await"
  /\ \E r \in TokenResponses :
       IF TokenBodyRead(r)
       THEN /\ accessToken' = TokenOf(r)
            /\ tokenExpiry' = ExpiryOf(now, r.expires_in)
            /\ cacheSrc' = SrcOf(now, r)
            /\ nIssued' = IF r.access_token = NULL THEN nIssued ELSE nIssued + 1
            /\ call' = [call EXCEPT ![p] =
                          [@ EXCEPT !.resp = Some(r), !.token = TokenOf(r),
                                    !.nSearch = 1]]
            /\ pc' = [pc EXCEPT ![p] = "sf_await"]
            /\ UNCHANGED << now, ended, scan, post, utterance, extracted >>
       ELSE /\ Resume(p, EndedCall([call[p] EXCEPT !.resp = Some(r)],
                                   "Error", "error", FALSE, 0),
                      << >>)
            /\ UNCHANGED << now, accessToken, tokenExpiry, cacheSrc, nIssued,
                            utterance, extracted >>

\* response.data.data || [] (120)
FlightsOf(r) == IF r.data = NULL THEN << >> ELSE r.data[1]

\* the search request of p is answered (amadeus.ts 119-129)
SearchResponse(p) ==
  /\ pc[p] = "sf_await"
  /\ \E r \in SearchResponses(call[p]) :
       IF r.kind = "ok"
       THEN Resume(p, EndedCall(call[p], call[p].token, "ok", FALSE,
                                Len(FlightsOf(r))),
                   FlightsOf(r))
       ELSE Resume(p, EndedCall(call[p], call[p].token, "error", r.kind = "auth", 0),
                   << >>)
  /\ UNCHANGED << now, accessToken, tokenExpiry, cacheSrc, nIssued, utterance,
                  extracted >>

\* getAlternativeDates(origin, destination, baseDate, daysBefore, daysAfter)
CallScan(p) ==
  /\ pc[p] = "idle"
  /\ scan[p] = NoScan
  /\ \E daysBefore \in 0..MaxDays, daysAfter \in 0..MaxDays :
       ScanLoop(p, [NoScan EXCEPT !.called = TRUE,
                                  !.daysBefore = daysBefore, !.daysAfter = daysAfter,
                                  !.i = SkipBase(-daysBefore)])
  /\ UNCHANGED << now, accessToken, tokenExpiry, cacheSrc, nIssued, ended,
                  utterance, extracted >>

\* the search parameters of lines 138-150; NULL when a line throws, which
\* cityToAirportCode does on a null city (87)
QueryOf(flightParams) ==
  IF IsNull(flightParams.origin) \/ IsNull(flightParams.destination) THEN NULL
  ELSE Some(
    [originLocationCode |-> cityToAirportCode(flightParams.origin[1]),
     destinationLocationCode |-> cityToAirportCode(flightParams.destination[1]),
     departureDate |-> IF flightParams.date # NULL
                       THEN parseDate(flightParams.date[1])
                       ELSE parseDate(<< "3","0"," ","d","a","y","s" >>)])

\* POST(request): body is null when request.json() throws (route.ts 112-162)
CallPost(p) ==
  /\ pc[p] = "idle"
  /\ ~post[p].called
  /\ \E body \in {NULL} \cup {Some(m) : m \in Utterances(MaxPostWords)} :
       IF body = NULL
       THEN /\ post' = [post EXCEPT ![p] =
                          [NoPost EXCEPT !.called = TRUE,
                                         !.response = Some(ErrorResponse(500))]]
            /\ UNCHANGED << pc, call >>
       ELSE IF body[1] = << >>
       THEN /\ post' = [post EXCEPT ![p] =
                          [NoPost EXCEPT !.called = TRUE,
                                         !.response = Some(ErrorResponse(400))]]
            /\ UNCHANGED << pc, call >>
       ELSE LET flightParams == extractFlightParams(body[1])
            IN  IF SearchGuard(flightParams) /\ QueryOf(flightParams) # NULL
                THEN /\ post' = [post EXCEPT ![p] =
                          [NoPost EXCEPT !.called = TRUE,
                                         !.flightParams = Some(flightParams),
                                         !.flightSearchPerformed = TRUE,
                                         !.query = QueryOf(flightParams)]]
                     /\ BeginSearch(p, "post", PostMax)
                ELSE IF SearchGuard(flightParams)
                THEN /\ post' = [post EXCEPT ![p] =
                          [NoPost EXCEPT !.called = TRUE,
                                         !.flightParams = Some(flightParams),
                                         !.flightSearchPerformed = TRUE,
                                         !.response = Some(OkResponse(TRUE, NULL))]]
                     /\ UNCHANGED << pc, call >>
                ELSE /\ post' = [post EXCEPT ![p] =
                          [NoPost EXCEPT !.called = TRUE,
                                         !.flightParams = Some(flightParams),
                                         !.response = Some(OkResponse(FALSE, NULL))]]
                     /\ UNCHANGED << pc, call >>
  /\ UNCHANGED << now, accessToken, tokenExpiry, cacheSrc, nIssued, ended, scan,
                  utterance, extracted >>

\* formatFlightOffer goes on behind its await of convertToUSD for the k-th
\* promise of flightData (amadeus.ts 155-171)
FormatResume(p, k) ==
  /\ post[p].flightData # NULL
  /\ k \in 1..Len(post[p].flightData[1])
  /\ post[p].flightData[1][k].state = "pending"
  /\ LET flight == post[p].flightData[1][k].offer
     IN  \E r \in (IF flight.currency = "USD" THEN {[kind |-> "none", usdRate |-> 1]}
                   ELSE RateResponses) :
           post' = [post EXCEPT ![p].flightData[1][k] =
                      [@ EXCEPT !.state = "fulfilled",
                                !.value = Some(Normalized(flight,
                                   convertToUSD(flight.total, flight.currency, r)))]]
  /\ UNCHANGED << now, accessToken, tokenExpiry, cacheSrc, nIssued, pc, call, ended,
                  scan, utterance, extracted >>

\* a direct call of extractFlightParams
Extract ==
  /\ extracted = NULL
  /\ utterance # NULL
  /\ extracted' = Some(extractFlightParams(utterance[1]))
  /\ UNCHANGED << now, accessToken, tokenExpiry, cacheSrc, nIssued, pc, call, ended,
                  scan, post, utterance >>

(***************************************************************************)
(* Specifications.                                                         *)
(***************************************************************************)
InitCache ==
  /\ now = 0
  /\ accessToken = "null"
  /\ tokenExpiry = << 0 >>
  /\ cacheSrc = NULL
  /\ nIssued = 0

InitCalls ==
  /\ pc = [p \in Procs |-> "idle"]
  /\ call = [p \in Procs |-> NoCall]
  /\ ended = NULL
  /\ scan = [p \in Procs |-> NoScan]
  /\ post = [p \in Procs |-> NoPost]

\* the token cache under concurrent callers of searchFlights
Init == InitCache /\ InitCalls /\ utterance = NULL /\ extracted = NULL

Next ==
  \/ Tick
  \/ \E p \in Procs : CallSearch(p)
  \/ \E p \in Procs : TokenResponse(p)
  \/ \E p \in Procs : SearchResponse(p)

Spec == Init /\ [][Next]_vars

\* one getAlternativeDates call
NextScan ==
  \/ CallScan(1)
  \/ TokenResponse(1)
  \/ SearchResponse(1)

SpecScan == Init /\ [][NextScan]_vars

\* one POST request
NextPost ==
  \/ CallPost(1)
  \/ TokenResponse(1)
  \/ SearchResponse(1)
  \/ \E k \in 1..PostShown : FormatResume(1, k)

SpecPost == Init /\ [][NextPost]_vars

\* extractFlightParams on the utterances of the model
InitExtract ==
  /\ InitCache /\ InitCalls
  /\ utterance \in {Some(m) : m \in Utterances(MaxWords)}
  /\ extracted = NULL

NextExtract == Extract

SpecExtract == InitExtract /\ [][NextExtract]_vars

(***************************************************************************)
(* The token cache (specification Spec).                                   *)
(***************************************************************************)
\* caller p enters getAccessToken in this step
Begins(p) == pc[p] = "idle" /\ pc'[p] # "idle"

\* the token request of caller p is answered in this step
Completes(p) == pc[p] = "gat_await" /\ pc'[p] # "gat_await"

\* the token response of the step in which the request of p is answered
Answer(p) == IF pc'[p] = "sf_await" THEN call'[p].resp[1] ELSE ended'[1].resp[1]

\* the token requests of the call of p after that step
FetchesAfter(p) == IF pc'[p] = "sf_await" THEN call'[p].nf ELSE ended'[1].nf

\* a call made inside the window of the last successful token response sends
\* no token request and is given that response's token
ReuseStep(p) ==
  (Begins(p) /\ SrcAdvertised /\ now < WindowEnd)
    => /\ pc'[p] = "sf_await"
       /\ call'[p].nf = 0
       /\ call'[p].token = cacheSrc[1].access_token[1]
       /\ UNCHANGED << accessToken, tokenExpiry, nIssued >>

\* a call made at or after the end of the window sends one token request
RefetchStep(p) ==
  (Begins(p) /\ SrcAdvertised /\ now >= WindowEnd)
    => pc'[p] = "gat_await" /\ call'[p].nf = 1

\* C1 as stated: the call made at or after the end of the window has sent
\* one token request and, when the request is answered, the cached token and
\* expiry are replaced
ReplaceAlwaysStep(p) ==
  (Completes(p) /\ call[p].late)
    => /\ FetchesAfter(p) = 1
       /\ accessToken' # accessToken
       /\ cacheSrc' # cacheSrc

\* the same when the answer holds a token: the cache then holds that token
\* and the expiry computed from that answer
ReplaceOnTokenStep(p) ==
  (Completes(p) /\ call[p].late)
    => /\ FetchesAfter(p) = 1
       /\ (Answer(p).kind = "ok" /\ Answer(p).access_token # NULL)
            => /\ accessToken' = Answer(p).access_token[1]
               /\ tokenExpiry' =
                    IF Answer(p).expires_in = NULL THEN << >>
                    ELSE << now + (Answer(p).expires_in[1] - 300) * 1000 >>
               /\ accessToken' # accessToken

FetchFailed(r) == r.kind # "ok" \/ r.access_token = NULL \/ r.expires_in = NULL

\* C2: whenever the token fetch fails (network error, non-2xx, malformed
\* body) getAccessToken fails with an error, the cache is not written from
\* that response, and no absent or invalid token is ever cached or returned.
C2_FetchFailureClaim ==
  /\ (ended # NULL /\ ended[1].resp # NULL /\ FetchFailed(ended[1].resp[1]))
       => ended[1].ret = "Error"
  /\ \A p \in Procs :
       (call[p].resp # NULL /\ FetchFailed(call[p].resp[1])) => pc[p] # "sf_await"
  /\ accessToken \in {"null"} \cup IssuedTokens
  /\ cacheSrc # NULL => SrcAdvertised
  /\ \A p \in Procs : pc[p] = "sf_await" => call[p].token \in IssuedTokens

\* C3: a searchFlights call whose search is rejected with an auth error has
\* refreshed the token and sent the search a second time before it fails, and
\* no call sends more than two searches.
C3_AuthRetryClaim ==
  /\ \A p \in Procs : call[p].nSearch <= 2
  /\ ended # NULL =>
       /\ ended[1].nSearch <= 2
       /\ (ended[1].rejected /\ ended[1].result = "error") => ended[1].nSearch = 2

(***************************************************************************)
(* getAlternativeDates (specification SpecScan).                           *)
(***************************************************************************)
\* the offsets of [-daysBefore, daysAfter] without 0, in ascending order
RECURSIVE OffsetsFrom(_, _)
OffsetsFrom(i, daysAfter) ==
  IF i > daysAfter THEN << >>
  ELSE IF i = 0 THEN OffsetsFrom(1, daysAfter)
  ELSE << i >> \o OffsetsFrom(i + 1, daysAfter)

\* the price the scan owes for a day, from what the upstream answered
OwedPrice(o) ==
  IF o.result = "ok" /\ Len(o.offers) > 0 THEN Some(o.offers[1]) ELSE NULL

ScanDone(sc) == sc.called /\ sc.result # NULL

C5_ScanOrderClaim ==
  LET sc == scan[1]
  IN  ScanDone(sc) =>
        \A i, j \in 1..Len(sc.result[1]) :
          i < j =>
            LET a == sc.result[1][i]
                b == sc.result[1][j]
            IN  /\ a.price = NULL => b.price = NULL
                /\ (a.price # NULL /\ b.price # NULL) => a.price[1] <= b.price[1]
                /\ a.price = b.price => a.date < b.date

(***************************************************************************)
(* POST (specification SpecPost).                                          *)
(***************************************************************************)
\* POST has answered a request whose message was not empty
Answered(q) == q.response # NULL /\ q.flightParams # NULL

\* the offers of flightData that formatFlightOffer can normalize
Normalizable(q) ==
  IF q.flightData = NULL THEN {}
  ELSE {k \in 1..Len(q.flightData[1]) : q.flightData[1][k].offer.shape = "ok"}

\* the summary of line 171 for the normalized offer n
SummaryOf(n) ==
  [reply |-> "best", origin |-> Some(n.origin), destination |-> Some(n.destination),
   airlineName |-> Some(n.airlineName), price |-> Some(n.price),
   currency |-> Some(n.currency), stops |-> Some(n.stops),
   duration |-> Some(n.duration)]

\* C6: for a request with a non-empty message no failure of the token fetch,
\* the search or the rate lookup yields the 500 body: the answer is a success
\* with one of the three fixed replies and a flightData holding no failed or
\* unresolved offer; an empty search result yields flightData null or empty
\* and the reply that invites other dates or airports.
C6_GracefulClaim ==
  LET q == post[1]
  IN  Answered(q) =>
        LET r == q.response[1]
        IN  /\ r.status = 200
            /\ r.response # NULL
            /\ r.response[1].reply \in {"best", "none found", "ask"}
            /\ r.flightData # NULL =>
                 \A k \in 1..Len(r.flightData[1]) : r.flightData[1][k].kind = "offer"
            /\ (ended # NULL /\ ended[1].result = "ok" /\ ended[1].nFlights = 0)
                 => /\ r.flightData = NULL \/ r.flightData = Some(<< >>)
                    /\ r.response[1].reply = "none found"

\* C7: whenever a search was attempted and produced at least one normalized
\* offer, the reply summarises the offer of lowest price among the normalized
\* offers of flightData, with its values resolved, whatever the order in which
\* the upstream returns its offers.
C7_CheapestClaim ==
  LET q == post[1]
  IN  (Answered(q) /\ q.flightSearchPerformed /\ Normalizable(q) # {}) =>
        \E k \in Normalizable(q) :
          /\ \A m \in Normalizable(q) :
               q.flightData[1][k].offer.total <= q.flightData[1][m].offer.total
          /\ q.response[1].response =
               Some(SummaryOf(Normalized(q.flightData[1][k].offer, 0)))

\* C8: an upstream call (token fetch or search) is made only if the extractor
\* returned both origin and destination non-null; when either is null no
\* upstream call is made, the reply asks for origin, destination and date, and
\* flightData of the response is null.
C8_SearchGuard ==
  LET q == post[1]
      both == /\ q.flightParams # NULL
              /\ ~IsNull(q.flightParams[1].origin)
              /\ ~IsNull(q.flightParams[1].destination)
  IN  /\ (pc[1] # "idle" \/ call[1] # NoCall \/ ended # NULL \/ nIssued > 0) => both
      /\ (q.flightParams # NULL /\ ~both)
           => /\ q.response # NULL
              /\ q.response[1].status = 200
              /\ q.response[1].response = Some(FixedText("ask"))
              /\ q.response[1].flightData = NULL

\* POST has answered a message that names an origin and no destination
C8_Witness ==
  LET q == post[1]
  IN  /\ Answered(q)
      /\ ~IsNull(q.flightParams[1].origin)
      /\ IsNull(q.flightParams[1].destination)
      /\ q.response[1].response = Some(FixedText("ask"))

(***************************************************************************)
(* extractFlightParams (specification SpecExtract).                        *)
(***************************************************************************)
\* the city name w stands as a word at position i of s, in any letter case
WordAt(s, i, w) ==
  /\ i + Len(w) - 1 <= Len(s)
  /\ SubSeq(ToLowerCase(s), i, i + Len(w) - 1) = w
  /\ (i = 1 \/ ~IsWordChar(s[i - 1]))
  /\ (i + Len(w) > Len(s) \/ ~IsWordChar(s[i + Len(w)]))

Mentions(s, k) == {i \in 1..Len(s) : WordAt(s, i, cityKeys[k])}

\* the city names the utterance mentions
Mentioned(s) == {k \in 1..Len(cityKeys) : Mentions(s, k) # {}}

FirstMention(s, k) == CHOOSE i \in Mentions(s, k) : \A j \in Mentions(s, k) : i <= j

IsCityName(o) == \E k \in 1..Len(cityKeys) : o = Some(cityKeys[k])

\* C9: for every utterance with two distinct recognized city names, in any
\* letter case, the name that appears first is origin and the other is
\* destination; and the single mention of an utterance that mentions one city
\* (also one whose name holds another key, as 'atlanta' holds 'la') never
\* fills both origin and destination: the two are not both names found
\* inside that one mention.
C9_ExtractionOrderClaim ==
  extracted # NULL =>
    LET u == utterance[1]
        r == extracted[1]
    IN  /\ \A a, b \in Mentioned(u) :
             (Cardinality(Mentioned(u)) = 2 /\ FirstMention(u, a) < FirstMention(u, b))
               => r.origin = Some(cityKeys[a]) /\ r.destination = Some(cityKeys[b])
        /\ \A k \in Mentioned(u) :
             (Cardinality(Mentioned(u)) = 1 /\ Cardinality(Mentions(u, k)) = 1)
               => ~(/\ IsCityName(r.origin) /\ IsCityName(r.destination)
                    /\ Includes(cityKeys[k], r.origin[1])
                    /\ Includes(cityKeys[k], r.destination[1]))

\* C10: when fewer than two city names are found, each slot still unset is
\* filled, origin first, from the bare 3-letter uppercase tokens of the text
\* in order of appearance: with no city name the first code is origin and the
\* second destination; with one city name taken as origin the first code is
\* destination.
C10_CodeFallbackClaim ==
  extracted # NULL =>
    LET u == utterance[1]
        r == extracted[1]
        cities == CityLoop(<< NULL, NULL >>, ToLowerCase(u), 1)
        codes == CodeMatches(u)
        code(n) == IF Len(codes) >= n THEN Some(codes[n]) ELSE NULL
    IN  /\ (IsNull(cities[1]) /\ IsNull(cities[2]))
             => r.origin = code(1) /\ r.destination = code(2)
        /\ (~IsNull(cities[1]) /\ IsNull(cities[2]))
             => r.origin = cities[1] /\ r.destination = code(1)


(***************************************************************************)
(* Malformed offers in POST (specification SpecPost).                      *)
(***************************************************************************)
\* the offers of flightData that formatFlightOffer cannot normalize
Malformed(q) ==
  IF q.flightData = NULL THEN {}
  ELSE {k \in 1..Len(q.flightData[1]) : q.flightData[1][k].offer.shape # "ok"}

\* C11: when an offer among the first three has no itinerary, or an outbound
\* itinerary with no segment, the request is still answered with a success,
\* the offer is absent from flightData of the response, and the well-formed
\* offers among the first three are there, normalized, in their order.
C11_MalformedDroppedClaim ==
  LET q == post[1]
  IN  (Answered(q) /\ Malformed(q) # {}) =>
        LET r == q.response[1]
        IN  /\ r.status = 200
            /\ r.flightData # NULL
            /\ Len(r.flightData[1]) = Cardinality(Normalizable(q))
            /\ \A j \in 1..Len(r.flightData[1]) :
                 /\ r.flightData[1][j].kind = "offer"
                 /\ \E k \in Normalizable(q) :
                      /\ r.flightData[1][j].id = q.flightData[1][k].offer.id
                      /\ Cardinality({m \in Normalizable(q) : m <= k}) = j


(***************************************************************************)
(* The token cache under overlapping calls (specification Spec).           *)
(***************************************************************************)
\* the cached token and expiry are the pair of one token response that held
\* a token and a lifetime, or the cache was never written
PairFromOneResponse ==
  IF cacheSrc = NULL THEN accessToken = "null" /\ tokenExpiry = << 0 >>
  ELSE /\ SrcAdvertised
       /\ accessToken = cacheSrc[1].access_token[1]
       /\ tokenExpiry = << WindowEnd >>

\* the token request of p is answered by a failure in this step, and the
\* cache keeps the pair it held
FailureKeepsPair(p) ==
  (Completes(p) /\ FetchFailed(Answer(p)))
    => UNCHANGED << accessToken, tokenExpiry, cacheSrc >>

\* the token each call goes on with, and the one the last ended call was
\* given, was issued by the upstream
ReturnedIssued ==
  /\ \A p \in Procs : pc[p] = "sf_await" => call[p].token \in IssuedTokens
  /\ (ended # NULL /\ ended[1].ret # "Error") => ended[1].ret \in IssuedTokens

\* a call that finds the cache unset or expired sends one token request, and
\* no call ever sends a second
OneFetchPerCaller(p) ==
  /\ (Begins(p) /\ ~CacheFresh) => (pc'[p] = "gat_await" /\ call'[p].nf = 1)
  /\ call'[p].nf <= 1
  /\ ended' # NULL => ended'[1].nf <= 1

\* the token request of p is answered in this step, and another call was at
\* its await of a token request during that of p: its request is in flight,
\* or it was answered and wrote the cache, which p had found unset or
\* expired and which is fresh now
Overlapped(p) ==
  /\ Completes(p)
  /\ \/ \E q \in Procs \ {p} : pc[q] = "gat_await"
     \/ CacheFresh

\* C12: for calls of getAccessToken interleaved at their await of the token
\* request, answered in any order, some by failures: in the state a token
\* response leaves while another request is in flight, the cached token and
\* expiry were written together from one successful response, a failing
\* fetch has left the pair untouched, and every token returned was issued by
\* a successful fetch; callers that find the cache unset send one token
\* request each, never more than one per caller.
C12_CacheIntegrityClaim ==
  [][\A p \in Procs :
       /\ OneFetchPerCaller(p)
       /\ Overlapped(p) =>
            /\ PairFromOneResponse'
            /\ ReturnedIssued'
            /\ FailureKeepsPair(p)]_vars

====
